---- MODULE Spec2Model ----
(***************************************************************************)
(* Heightmap-to-cylinder mesh converter (src/main.py).                     *)
(*                                                                         *)
(* process_vertices, process_faces, save_obj and process_images are each   *)
(* modelled as a loop-by-loop state machine over one shared set of         *)
(* variables; every function has its own specification (SpecVertices,      *)
(* SpecFaces, SpecObj, SpecImages).                                        *)
(*                                                                         *)
(* Numbers: Python floats are modelled by exact rationals [n, d] in lowest *)
(* terms.  Angles are kept in turns (1 turn = 2*pi radians) and cos / sin  *)
(* are tabulated on the multiples of a quarter turn, the only angles of    *)
(* the form x / (width - 1) turns whose cosine and sine are rational; the  *)
(* vertex specifications therefore draw widths from 0, 1, 2, 3 and 5.      *)
(* IEEE-754 rounding is not modelled.  Console output is not modelled.     *)
(***************************************************************************)
EXTENDS Integers, Sequences, FiniteSets

VARIABLES pc, err, height, width, heightmap, radius, max_depth, y, x,
          vertices, uvs, normals, faces, out, pos,
          listing, fs, images, selected_images, batch_process, cur,
          obj_filename, txt_filename

vars == <<pc, err, height, width, heightmap, radius, max_depth, y, x,
          vertices, uvs, normals, faces, out, pos,
          listing, fs, images, selected_images, batch_process, cur,
          obj_filename, txt_filename>>

meshVars == <<height, width, heightmap, radius, max_depth, y, x,
              vertices, uvs, normals, faces, out, pos>>

fileVars == <<listing, fs, images, selected_images, batch_process, cur,
              obj_filename, txt_filename>>

----------------------------------------------------------------------------
(* Bounds of the model.                                                    *)

MaxH == 3
MaxW == 5
MaxCells == 6
MaxFiles == 2

----------------------------------------------------------------------------
(* Exact rational arithmetic standing for Python float arithmetic.         *)

Abs(a) == IF a < 0 THEN -a ELSE a

RECURSIVE Gcd(_, _)
Gcd(a, b) == IF b = 0 THEN a ELSE Gcd(b, a % b)

Rat(n, d) ==
    LET g == Gcd(Abs(n), Abs(d))
        s == IF d < 0 THEN -1 ELSE 1
    IN  [n |-> (s * n) \div g, d |-> (s * d) \div g]

Zero == Rat(0, 1)
One == Rat(1, 1)

RatAdd(a, b) == Rat(a.n * b.d + b.n * a.d, a.d * b.d)
RatSub(a, b) == Rat(a.n * b.d - b.n * a.d, a.d * b.d)
RatMul(a, b) == Rat(a.n * b.n, a.d * b.d)
RatDiv(a, b) == Rat(a.n * b.d, a.d * b.n)
RatLess(a, b) == a.n * b.d < b.n * a.d
RatLeq(a, b) == a.n * b.d <= b.n * a.d

IntSqrt(k) == CHOOSE r \in 0..k : r * r = k

\* math.sqrt on the rationals that have a rational root
RatSqrt(a) == Rat(IntSqrt(a.n), IntSqrt(a.d))

----------------------------------------------------------------------------
(* Constants of the program.                                               *)

\* PIXEL_SIZE = 0.019
PIXEL_SIZE == Rat(19, 1000)

\* 2 * math.pi, one full turn, in turns
TWO_PI == One

\* math.cos / math.sin of an angle given in turns, on quarter-turn multiples
Quarter(theta) == ((4 * theta.n) \div theta.d) % 4

cos(theta) ==
    CASE Quarter(theta) = 0 -> Rat(1, 1)
      [] Quarter(theta) = 1 -> Rat(0, 1)
      [] Quarter(theta) = 2 -> Rat(-1, 1)
      [] Quarter(theta) = 3 -> Rat(0, 1)

sin(theta) ==
    CASE Quarter(theta) = 0 -> Rat(0, 1)
      [] Quarter(theta) = 1 -> Rat(1, 1)
      [] Quarter(theta) = 2 -> Rat(0, 1)
      [] Quarter(theta) = 3 -> Rat(-1, 1)

----------------------------------------------------------------------------
(* process_vertices: the per-cell computation, lines 29-48.                *)

\* line 29: theta = (x * (2 * math.pi)) / (width - 1)
ThetaRaises(w) == w - 1 = 0

\* the angle step taken as a full turn over width, not over width - 1
ThetaOverWidth(xx, w) == RatDiv(RatMul(Rat(xx, 1), TWO_PI), Rat(w, 1))

Theta(xx, w) == RatDiv(RatMul(Rat(xx, 1), TWO_PI), Rat(w - 1, 1))

\* line 30: world_z = (y / (height - 1)) * (height * PIXEL_SIZE)
WorldZRaises(h) == h - 1 = 0
WorldZ(yy, h) == RatMul(Rat(yy, h - 1), RatMul(Rat(h, 1), PIXEL_SIZE))

\* lines 31-32: base_x = radius * cos(theta), base_y = radius * sin(theta)
BaseX(r, theta) == RatMul(r, cos(theta))
BaseY(r, theta) == RatMul(r, sin(theta))

\* line 37: length = sqrt(vector_x ** 2 + vector_y ** 2)
Length(vx, vy) == RatSqrt(RatAdd(RatMul(vx, vx), RatMul(vy, vy)))

\* line 38: depth_offset = heightmap[y, x] * max_depth
DepthOffset(g, md) == RatMul(g, md)

\* the carve depth added to the radius instead of subtracted
ScaleOutward(r, depth_offset, length) == RatDiv(RatAdd(r, depth_offset), length)

\* line 40: scale = (radius - depth_offset) / length
Scale(r, depth_offset, length) == RatDiv(RatSub(r, depth_offset), length)

\* lines 34-46: the displaced position of one cell
Position(g, r, md, h, w, yy, xx) ==
    LET theta == Theta(xx, w)
        world_z == WorldZ(yy, h)
        base_x == BaseX(r, theta)
        base_y == BaseY(r, theta)
        center_x == Zero
        center_y == Zero
        vector_x == RatSub(base_x, center_x)
        vector_y == RatSub(base_y, center_y)
        length == Length(vector_x, vector_y)
        depth_offset == DepthOffset(g, md)
    IN  IF RatLess(Zero, length)
        THEN LET scale == Scale(r, depth_offset, length)
             IN  <<RatAdd(center_x, RatMul(vector_x, scale)),
                   RatAdd(center_y, RatMul(vector_y, scale)),
                   world_z>>
        ELSE <<base_x, base_y, world_z>>

\* line 47: uvs.append((x / (width - 1), y / (height - 1)))
Uv(h, w, yy, xx) == <<Rat(xx, w - 1), Rat(yy, h - 1)>>

\* line 48: normals.append((cos(theta), sin(theta), 0))
Normal(w, xx) == <<cos(Theta(xx, w)), sin(Theta(xx, w)), Zero>>

----------------------------------------------------------------------------
(* Inputs of process_vertices.                                             *)

\* widths whose column angles are multiples of a quarter turn
Widths == {w \in 0..MaxW : w <= 1 \/ 4 % (w - 1) = 0}

Intensities == {Rat(0, 1), Rat(1, 2), Rat(1, 1)}

\* every grid over Intensities up to MaxCells cells, the uniform grids beyond
Heightmaps(h, w) ==
    IF h * w <= MaxCells
    THEN [0..(h - 1) -> [0..(w - 1) -> Intensities]]
    ELSE {[r \in 0..(h - 1) |-> [c \in 0..(w - 1) |-> g]] : g \in Intensities}

\* <<radius, max_depth>>: three valid pairs, then radius <= 0,
\* max_depth >= radius and max_depth < 0
Params ==
    { <<Rat(1, 1), Rat(1, 10)>>, <<Rat(1, 1), Rat(0, 1)>>, <<Rat(2, 1), Rat(1, 1)>>,
      <<Rat(0, 1), Rat(0, 1)>>, <<Rat(-1, 1), Rat(0, 1)>>,
      <<Rat(1, 1), Rat(1, 1)>>, <<Rat(1, 1), Rat(2, 1)>>,
      <<Rat(1, 1), Rat(-1, 10)>> }

ValidDims(h, w) == h >= 2 /\ w >= 2
ValidParams(r, md) == RatLess(Zero, r) /\ RatLeq(Zero, md) /\ RatLess(md, r)

NoFiles ==
    /\ listing = <<>>
    /\ fs = <<>>
    /\ images = <<>>
    /\ selected_images = <<>>
    /\ batch_process = FALSE
    /\ cur = 1
    /\ obj_filename = <<>>
    /\ txt_filename = <<>>

InitVertices ==
    /\ pc = "vertices_row"
    /\ err = "none"
    /\ height \in 0..MaxH
    /\ width \in Widths
    /\ heightmap \in Heightmaps(height, width)
    /\ \E p \in Params : radius = p[1] /\ max_depth = p[2]
    /\ y = 0
    /\ x = 0
    /\ vertices = <<>>
    /\ uvs = <<>>
    /\ normals = <<>>
    /\ faces = <<>>
    /\ out = <<>>
    /\ pos = 0
    /\ NoFiles

----------------------------------------------------------------------------
(* process_vertices, lines 18-51, one action per loop step.                *)

\* line 25: the next row starts
VertexRow ==
    /\ pc = "vertices_row"
    /\ y < height
    /\ pc' = "vertices_cell"
    /\ x' = 0
    /\ UNCHANGED <<err, height, width, heightmap, radius, max_depth, y,
                   vertices, uvs, normals, faces, out, pos>>
    /\ UNCHANGED fileVars

\* the cell's entries inserted at the front of the arrays
VertexCellPrepend ==
    /\ pc = "vertices_cell"
    /\ x < width
    /\ ~ThetaRaises(width)
    /\ ~WorldZRaises(height)
    /\ vertices' = <<Position(heightmap[y][x], radius, max_depth,
                              height, width, y, x)>> \o vertices
    /\ uvs' = <<Uv(height, width, y, x)>> \o uvs
    /\ normals' = <<Normal(width, x)>> \o normals
    /\ x' = x + 1
    /\ UNCHANGED <<pc, err, height, width, heightmap, radius, max_depth, y,
                   faces, out, pos>>
    /\ UNCHANGED fileVars

\* lines 28-48: one cell is projected and appended to the three arrays
VertexCell ==
    /\ pc = "vertices_cell"
    /\ x < width
    /\ ~ThetaRaises(width)
    /\ ~WorldZRaises(height)
    /\ vertices' = Append(vertices,
                          Position(heightmap[y][x], radius, max_depth,
                                   height, width, y, x))
    /\ uvs' = Append(uvs, Uv(height, width, y, x))
    /\ normals' = Append(normals, Normal(width, x))
    /\ x' = x + 1
    /\ UNCHANGED <<pc, err, height, width, heightmap, radius, max_depth, y,
                   faces, out, pos>>
    /\ UNCHANGED fileVars

\* lines 29-30: a division by width - 1 = 0 or height - 1 = 0 raises
VertexRaise ==
    /\ pc = "vertices_cell"
    /\ x < width
    /\ ThetaRaises(width) \/ WorldZRaises(height)
    /\ pc' = "vertices_raised"
    /\ err' = "ZeroDivisionError"
    /\ UNCHANGED meshVars
    /\ UNCHANGED fileVars

\* line 28: the row's columns are exhausted
VertexRowEnd ==
    /\ pc = "vertices_cell"
    /\ x = width
    /\ pc' = "vertices_row"
    /\ y' = y + 1
    /\ UNCHANGED <<err, height, width, heightmap, radius, max_depth, x,
                   vertices, uvs, normals, faces, out, pos>>
    /\ UNCHANGED fileVars

\* line 51: return vertices, uvs, normals
VertexReturn ==
    /\ pc = "vertices_row"
    /\ y = height
    /\ pc' = "vertices_returned"
    /\ UNCHANGED err
    /\ UNCHANGED meshVars
    /\ UNCHANGED fileVars

NextVertices ==
    \/ VertexRow
    \/ VertexCell
    \/ VertexRaise
    \/ VertexRowEnd
    \/ VertexReturn

SpecVertices == InitVertices /\ [][NextVertices]_vars

----------------------------------------------------------------------------
(* process_faces, lines 53-75.                                             *)

\* lines 63-64 and 72-73: the two triangles of one quad
QuadFaces(v0, v1, v2, v3) == << <<v0, v1, v3>>, <<v0, v3, v2>> >>

\* lines 58-61: the corners of the interior quad at (y, x)
InteriorFaces(w, yy, xx) ==
    LET v0 == yy * w + xx
        v1 == v0 + 1
        v2 == v0 + w
        v3 == v2 + 1
    IN  QuadFaces(v0, v1, v2, v3)

\* the seam quad taken as one more interior quad, without the wrap to column 0
SeamFacesNoWrap(w, yy) ==
    LET v0 == yy * w + (w - 1)
        v1 == v0 + 1
        v2 == (yy + 1) * w + (w - 1)
        v3 == v2 + 1
    IN  QuadFaces(v0, v1, v2, v3)

\* the seam quad with columns 0 and width - 1 exchanged, winding reversed
SeamFacesFlipped(w, yy) ==
    LET v0 == yy * w + (w - 1)
        v1 == yy * w
        v2 == (yy + 1) * w + (w - 1)
        v3 == (yy + 1) * w
    IN  QuadFaces(v1, v0, v3, v2)

\* lines 67-70: the corners of the seam quad of row band y
SeamFaces(w, yy) ==
    LET v0 == yy * w + (w - 1)
        v1 == yy * w
        v2 == (yy + 1) * w + (w - 1)
        v3 == (yy + 1) * w
    IN  QuadFaces(v0, v1, v2, v3)

InitFaces ==
    /\ pc = "faces_row"
    /\ err = "none"
    /\ height \in 1..MaxH
    /\ width \in 1..MaxW
    /\ heightmap = <<>>
    /\ radius = Zero
    /\ max_depth = Zero
    /\ y = 0
    /\ x = 0
    /\ vertices = <<>>
    /\ uvs = <<>>
    /\ normals = <<>>
    /\ faces = <<>>
    /\ out = <<>>
    /\ pos = 0
    /\ NoFiles

\* line 56: the next row band of interior quads starts
FaceRow ==
    /\ pc = "faces_row"
    /\ y < height - 1
    /\ pc' = "faces_quad"
    /\ x' = 0
    /\ UNCHANGED <<err, height, width, heightmap, radius, max_depth, y,
                   vertices, uvs, normals, faces, out, pos>>
    /\ UNCHANGED fileVars

\* the inner loop running over range(width) instead of range(width - 1)
FaceQuadWide ==
    /\ pc = "faces_quad"
    /\ x < width
    /\ faces' = faces \o InteriorFaces(width, y, x)
    /\ x' = x + 1
    /\ UNCHANGED <<pc, err, height, width, heightmap, radius, max_depth, y,
                   vertices, uvs, normals, out, pos>>
    /\ UNCHANGED fileVars

\* lines 57-64: one interior quad appends its two triangles
FaceQuad ==
    /\ pc = "faces_quad"
    /\ x < width - 1
    /\ faces' = faces \o InteriorFaces(width, y, x)
    /\ x' = x + 1
    /\ UNCHANGED <<pc, err, height, width, heightmap, radius, max_depth, y,
                   vertices, uvs, normals, out, pos>>
    /\ UNCHANGED fileVars

\* line 57: the row band's quads are exhausted
FaceRowEnd ==
    /\ pc = "faces_quad"
    /\ ~(x < width - 1)
    /\ pc' = "faces_row"
    /\ y' = y + 1
    /\ UNCHANGED <<err, height, width, heightmap, radius, max_depth, x,
                   vertices, uvs, normals, faces, out, pos>>
    /\ UNCHANGED fileVars

\* lines 56, 66: the interior loop ends and the seam loop starts
FaceInteriorDone ==
    /\ pc = "faces_row"
    /\ ~(y < height - 1)
    /\ pc' = "faces_seam"
    /\ y' = 0
    /\ UNCHANGED <<err, height, width, heightmap, radius, max_depth, x,
                   vertices, uvs, normals, faces, out, pos>>
    /\ UNCHANGED fileVars

\* lines 66-73: one seam quad appends its two triangles
FaceSeam ==
    /\ pc = "faces_seam"
    /\ y < height - 1
    /\ faces' = faces \o SeamFaces(width, y)
    /\ y' = y + 1
    /\ UNCHANGED <<pc, err, height, width, heightmap, radius, max_depth, x,
                   vertices, uvs, normals, out, pos>>
    /\ UNCHANGED fileVars

\* line 75: return faces
FaceReturn ==
    /\ pc = "faces_seam"
    /\ ~(y < height - 1)
    /\ pc' = "faces_returned"
    /\ UNCHANGED err
    /\ UNCHANGED meshVars
    /\ UNCHANGED fileVars

NextFaces ==
    \/ FaceRow
    \/ FaceQuad
    \/ FaceRowEnd
    \/ FaceInteriorDone
    \/ FaceSeam
    \/ FaceReturn

SpecFaces == InitFaces /\ [][NextFaces]_vars

----------------------------------------------------------------------------
(* Properties of process_faces, checked under SpecFaces.                   *)

\* C1: for H >= 2 and W >= 2 process_faces returns exactly 2*(H-1)*W
\* triangles; when the interior loop ends the list holds 2*(H-1)*(W-1) of
\* them and each of the H-1 seam steps that follow adds two more.
C1_TriangleCount ==
    ValidDims(height, width) =>
        /\ pc = "faces_row" => Len(faces) = 2 * y * (width - 1)
        /\ pc = "faces_quad" => Len(faces) = 2 * (y * (width - 1) + x)
        /\ pc = "faces_seam" =>
               Len(faces) = 2 * (height - 1) * (width - 1) + 2 * y
        /\ pc = "faces_returned" => Len(faces) = 2 * (height - 1) * width

C1_Witness ==
    /\ pc = "faces_returned"
    /\ height = 2
    /\ width = 3
    /\ Len(faces) = 6

\* C2: for H >= 2 and W >= 2 every index of every triangle of the list lies
\* in [0, H*W).
C2_IndicesInRange ==
    ValidDims(height, width) =>
        \A i \in 1..Len(faces) : \A c \in 1..3 :
            0 <= faces[i][c] /\ faces[i][c] < height * width

C2_Witness ==
    /\ pc = "faces_returned"
    /\ ValidDims(height, width)
    /\ \E i \in 1..Len(faces) : \E c \in 1..3 :
           faces[i][c] = height * width - 1
    /\ \E i \in 1..Len(faces) : \E c \in 1..3 : faces[i][c] = 0

Edges(t) == {<<t[1], t[2]>>, <<t[2], t[3]>>, <<t[3], t[1]>>}

NoRepeatedEdge(fl) ==
    \A i \in 1..Len(fl) : \A j \in 1..Len(fl) :
        i # j => Edges(fl[i]) \cap Edges(fl[j]) = {}

\* C7 as stated: for H >= 2 and W >= 2 no directed edge occurs in two
\* triangles of the returned list.
C7_NoRepeatedEdge_Original ==
    (pc = "faces_returned" /\ ValidDims(height, width)) => NoRepeatedEdge(faces)

\* C7 amended: no directed edge occurs in two triangles of the returned list
\* when W >= 3 and H >= 2, and on the 2 x 2 grid.
C7_NoRepeatedEdge ==
    (/\ pc = "faces_returned"
     /\ ValidDims(height, width)
     /\ width >= 3 \/ height = 2) => NoRepeatedEdge(faces)

\* a seam triangle and an interior triangle share an edge, in opposite directions
C7_Witness ==
    /\ pc = "faces_returned"
    /\ height >= 3
    /\ width >= 3
    /\ LET interior == 2 * (height - 1) * (width - 1)
       IN  \E i \in 1..interior : \E j \in (interior + 1)..Len(faces) :
               \E e \in Edges(faces[i]) : <<e[2], e[1]>> \in Edges(faces[j])

----------------------------------------------------------------------------
(* Properties of process_vertices, checked under SpecVertices.             *)

CellRow(i) == (i - 1) \div width
CellCol(i) == (i - 1) % width

RowMajor ==
    /\ Len(vertices) = Len(uvs)
    /\ Len(uvs) = Len(normals)
    /\ pc = "vertices_row" => Len(vertices) = y * width
    /\ pc = "vertices_cell" => Len(vertices) = y * width + x
    /\ pc = "vertices_returned" => Len(vertices) = height * width
    /\ \A i \in 1..Len(vertices) :
           /\ vertices[i] = Position(heightmap[CellRow(i)][CellCol(i)], radius,
                                     max_depth, height, width,
                                     CellRow(i), CellCol(i))
           /\ uvs[i] = Uv(height, width, CellRow(i), CellCol(i))
           /\ normals[i] = Normal(width, CellCol(i))

AppendOnly ==
    /\ Len(vertices') >= Len(vertices)
    /\ Len(vertices') <= Len(vertices) + 1
    /\ \A i \in 1..Len(vertices) :
           /\ vertices'[i] = vertices[i]
           /\ uvs'[i] = uvs[i]
           /\ normals'[i] = normals[i]

\* C3: the three arrays always have equal length, the entry of cell (y, x)
\* sits at index y*W + x (1-based: y*W + x + 1), every step keeps the entries
\* already written where they are, and on return each array has H*W entries.
C3_RowMajorAppendOnly == []RowMajor /\ [][AppendOnly]_vars

C3_Witness ==
    /\ pc = "vertices_returned"
    /\ height = 2
    /\ width = 3
    /\ Len(vertices) = 6
    /\ vertices[1] # vertices[2]
    /\ heightmap[1][2] # heightmap[0][0]

\* the squared distance of a position from the cylinder axis
RadialSq(v) == RatAdd(RatMul(v[1], v[1]), RatMul(v[2], v[2]))

Carved(g) == RatSub(radius, RatMul(g, max_depth))

\* C4: for H, W >= 2, radius > 0 and 0 <= maxDepth < radius every vertex
\* lies at distance radius - G[y][x]*maxDepth from the axis, a distance in
\* [radius - maxDepth, radius]: radius - maxDepth at intensity 1 and radius
\* at intensity 0.
C4_RadialDistance ==
    (ValidDims(height, width) /\ ValidParams(radius, max_depth)) =>
        \A i \in 1..Len(vertices) :
            LET g == heightmap[CellRow(i)][CellCol(i)]
                d == Carved(g)
            IN  /\ RatLeq(Zero, d)
                /\ RadialSq(vertices[i]) = RatMul(d, d)
                /\ RatLeq(RatSub(radius, max_depth), d)
                /\ RatLeq(d, radius)
                /\ g = One => d = RatSub(radius, max_depth)
                /\ g = Zero => d = radius

\* radius 1, maxDepth 0.1, intensity 1 everywhere: every vertex at distance 0.9
C4_Witness ==
    /\ pc = "vertices_returned"
    /\ height = 2
    /\ width = 5
    /\ radius = Rat(1, 1)
    /\ max_depth = Rat(1, 10)
    /\ \A i \in 1..Len(vertices) :
           /\ heightmap[CellRow(i)][CellCol(i)] = One
           /\ RadialSq(vertices[i]) = Rat(81, 100)
    /\ vertices[2][2] = Rat(9, 10)

\* C9: for W >= 2 the first and the last column lie at theta = 0 and at one
\* full turn, have the same undisplaced base position and the same normal,
\* the same position whenever their intensities are equal, and u = 0 and 1.
C9_SeamColumns ==
    width >= 2 =>
        /\ Theta(0, width) = Zero
        /\ Theta(width - 1, width) = TWO_PI
        /\ BaseX(radius, Theta(0, width)) = BaseX(radius, Theta(width - 1, width))
        /\ BaseY(radius, Theta(0, width)) = BaseY(radius, Theta(width - 1, width))
        /\ \A r \in 0..(height - 1) :
               LET first == r * width + 1
                   last == r * width + width
               IN  last <= Len(vertices) =>
                       /\ normals[first] = normals[last]
                       /\ heightmap[r][0] = heightmap[r][width - 1]
                              => vertices[first] = vertices[last]
                       /\ uvs[first][1] = Zero
                       /\ uvs[last][1] = One

\* a row whose end columns carry different intensities, and different positions
C9_Witness ==
    /\ pc = "vertices_returned"
    /\ height = 2
    /\ width = 3
    /\ ValidParams(radius, max_depth)
    /\ heightmap[0][0] # heightmap[0][2]
    /\ vertices[1] # vertices[3]
    /\ normals[1] = normals[3]
    /\ heightmap[1][0] = heightmap[1][2]
    /\ vertices[4] = vertices[6]

\* C6 as stated: with radius <= 0, maxDepth >= radius or maxDepth < 0 the
\* conversion of a grid with H, W >= 2 fails with InvalidPhysicalParams
\* before any vertex is produced.
C6_InvalidParamsRejected ==
    (ValidDims(height, width) /\ ~ValidParams(radius, max_depth)) =>
        /\ vertices = <<>>
        /\ pc # "vertices_returned"
        /\ pc = "vertices_raised" => err = "InvalidPhysicalParams"

----------------------------------------------------------------------------
(* Input validation of process_faces, checked under SpecFaces.             *)

\* C5 as stated: with H < 2 or W < 2 the call fails with
\* InvalidGridDimensions and no triangle is produced or returned.
C5_InvalidDimsRejected ==
    ~ValidDims(height, width) =>
        /\ faces = <<>>
        /\ pc # "faces_returned"
        /\ err \in {"none", "InvalidGridDimensions"}

----------------------------------------------------------------------------
(* The two mesh functions as whole results, the inputs of save_obj.        *)

\* process_vertices on a grid it does not raise on: the three arrays
VertexList(hm, r, md, h, w) ==
    [k \in 1..(h * w) |->
        Position(hm[(k - 1) \div w][(k - 1) % w], r, md, h, w,
                 (k - 1) \div w, (k - 1) % w)]
UvList(h, w) == [k \in 1..(h * w) |-> Uv(h, w, (k - 1) \div w, (k - 1) % w)]
NormalList(h, w) == [k \in 1..(h * w) |-> Normal(w, (k - 1) % w)]

\* process_faces: the interior quads row band by row band, then the seam
FaceList(h, w) ==
    LET interior == IF h > 1 /\ w > 1 THEN (h - 1) * (w - 1) ELSE 0
        seam == IF h > 1 THEN h - 1 ELSE 0
    IN  [k \in 1..(2 * (interior + seam)) |->
            IF k <= 2 * interior
            THEN InteriorFaces(w, ((k - 1) \div 2) \div (w - 1),
                               ((k - 1) \div 2) % (w - 1))[((k - 1) % 2) + 1]
            ELSE SeamFaces(w, (k - 2 * interior - 1) \div 2)[((k - 1) % 2) + 1]]

\* the stepwise loops compute these lists
StepwiseFaces == pc = "faces_returned" => faces = FaceList(height, width)
StepwiseVertices ==
    pc = "vertices_returned" =>
        /\ vertices = VertexList(heightmap, radius, max_depth, height, width)
        /\ uvs = UvList(height, width)
        /\ normals = NormalList(height, width)

----------------------------------------------------------------------------
(* save_obj, lines 77-87.  The file is the sequence of the records         *)
(* written; a record keeps the numbers it was formatted from.              *)

\* the grids process_vertices returns on
Returns(h, w) == h = 0 \/ w = 0 \/ ValidDims(h, w)

UniformGrid(h, w, g) == [r \in 0..(h - 1) |-> [c \in 0..(w - 1) |-> g]]

InitObj ==
    /\ pc = "obj_v"
    /\ err = "none"
    /\ height \in 0..MaxH
    /\ width \in Widths
    /\ Returns(height, width)
    /\ \E g \in Intensities : heightmap = UniformGrid(height, width, g)
    /\ \E p \in Params :
           ValidParams(p[1], p[2]) /\ radius = p[1] /\ max_depth = p[2]
    /\ y = 0
    /\ x = 0
    /\ vertices = VertexList(heightmap, radius, max_depth, height, width)
    /\ uvs = UvList(height, width)
    /\ normals = NormalList(height, width)
    /\ faces = FaceList(height, width)
    /\ out = <<>>
    /\ pos = 1
    /\ NoFiles

\* lines 80-81: f.write(f'v {v[0]} {v[1]} {v[2]}\n')
ObjWriteV ==
    /\ pc = "obj_v"
    /\ pos <= Len(vertices)
    /\ out' = Append(out, <<"v">> \o vertices[pos])
    /\ pos' = pos + 1
    /\ UNCHANGED <<pc, err, height, width, heightmap, radius, max_depth, y, x,
                   vertices, uvs, normals, faces>>
    /\ UNCHANGED fileVars

\* lines 82-83: f.write(f'vt {vt[0]} {vt[1]}\n')
ObjWriteVt ==
    /\ pc = "obj_vt"
    /\ pos <= Len(uvs)
    /\ out' = Append(out, <<"vt">> \o uvs[pos])
    /\ pos' = pos + 1
    /\ UNCHANGED <<pc, err, height, width, heightmap, radius, max_depth, y, x,
                   vertices, uvs, normals, faces>>
    /\ UNCHANGED fileVars

\* lines 84-85: f.write(f'vn {vn[0]} {vn[1]} {vn[2]}\n')
ObjWriteVn ==
    /\ pc = "obj_vn"
    /\ pos <= Len(normals)
    /\ out' = Append(out, <<"vn">> \o normals[pos])
    /\ pos' = pos + 1
    /\ UNCHANGED <<pc, err, height, width, heightmap, radius, max_depth, y, x,
                   vertices, uvs, normals, faces>>
    /\ UNCHANGED fileVars

\* a face corner written with the 0-based index, the + 1 forgotten
CornerZeroBased(v) == <<v, v, v>>

\* line 87: one corner, {face[k]+1}/{face[k]+1}/{face[k]+1}
Corner(v) == <<v + 1, v + 1, v + 1>>

\* lines 86-87: one f record per triangle
ObjWriteF ==
    /\ pc = "obj_f"
    /\ pos <= Len(faces)
    /\ out' = Append(out, <<"f", Corner(faces[pos][1]), Corner(faces[pos][2]),
                            Corner(faces[pos][3])>>)
    /\ pos' = pos + 1
    /\ UNCHANGED <<pc, err, height, width, heightmap, radius, max_depth, y, x,
                   vertices, uvs, normals, faces>>
    /\ UNCHANGED fileVars

\* the list a loop of save_obj runs over
ObjList ==
    CASE pc = "obj_v" -> vertices
      [] pc = "obj_vt" -> uvs
      [] pc = "obj_vn" -> normals
      [] pc = "obj_f" -> faces

ObjAfter ==
    CASE pc = "obj_v" -> "obj_vt"
      [] pc = "obj_vt" -> "obj_vn"
      [] pc = "obj_vn" -> "obj_f"
      [] pc = "obj_f" -> "obj_closed"

\* lines 80, 82, 84, 86: a loop ends, the next one starts (or the file closes)
ObjLoopEnd ==
    /\ pc \in {"obj_v", "obj_vt", "obj_vn", "obj_f"}
    /\ pos > Len(ObjList)
    /\ pc' = ObjAfter
    /\ pos' = 1
    /\ UNCHANGED <<err, height, width, heightmap, radius, max_depth, y, x,
                   vertices, uvs, normals, faces, out>>
    /\ UNCHANGED fileVars

NextObj ==
    \/ ObjWriteV
    \/ ObjWriteVt
    \/ ObjWriteVn
    \/ ObjWriteF
    \/ ObjLoopEnd

SpecObj == InitObj /\ [][NextObj]_vars

----------------------------------------------------------------------------
(* Properties of save_obj, checked under SpecObj.                          *)

Rank(kind) ==
    CASE kind = "v" -> 1
      [] kind = "vt" -> 2
      [] kind = "vn" -> 3
      [] kind = "f" -> 4

Lines(kind) == LET Test(rec) == rec[1] = kind IN SelectSeq(out, Test)

\* C8: no record of a later kind precedes one of an earlier kind (v, vt, vn,
\* f); the corners of the k-th f record are i/i/i with i one more than the
\* index in the k-th triangle; for H, W >= 2 every i is in [1, H*W] and,
\* once the file is complete, the i-th v, vt and vn lines are those of the
\* cell ((i-1) div W, (i-1) mod W).
C8_ObjOrderAndIndices ==
    /\ \A a \in 1..Len(out) : \A b \in 1..Len(out) :
           a < b => Rank(out[a][1]) <= Rank(out[b][1])
    /\ \A k \in 1..Len(Lines("f")) : \A c \in 1..3 :
           LET corner == Lines("f")[k][c + 1]
               idx == corner[1]
           IN  /\ corner = <<idx, idx, idx>>
               /\ idx = faces[k][c] + 1
               /\ ValidDims(height, width) =>
                      /\ 1 <= idx
                      /\ idx <= height * width
                      /\ pc = "obj_closed" =>
                             /\ Lines("v")[idx] =
                                    <<"v">> \o Position(
                                        heightmap[CellRow(idx)][CellCol(idx)],
                                        radius, max_depth, height, width,
                                        CellRow(idx), CellCol(idx))
                             /\ Lines("vt")[idx] =
                                    <<"vt">> \o Uv(height, width,
                                                   CellRow(idx), CellCol(idx))
                             /\ Lines("vn")[idx] =
                                    <<"vn">> \o Normal(width, CellCol(idx))

C8_Witness ==
    /\ pc = "obj_closed"
    /\ height = 2
    /\ width = 3
    /\ Len(out) = 24
    /\ out[1][1] = "v"
    /\ out[7][1] = "vt"
    /\ out[13][1] = "vn"
    /\ out[24] = <<"f", <<3, 3, 3>>, <<4, 4, 4>>, <<6, 6, 6>>>>

----------------------------------------------------------------------------
(* process_images, lines 99-133.  A file name is a sequence of characters; *)
(* fs maps the names of the working directory to what each file holds.     *)
(* The mesh functions called on lines 124-125 are modelled above; here     *)
(* only their returning or raising matters.                                *)

Stem == <<"a">>
PNG == <<".", "p", "n", "g">>
JPG == <<".", "j", "p", "g">>
JPEG == <<".", "j", "p", "e", "g">>
OBJ == <<".", "o", "b", "j">>
TXT == <<".", "t", "x", "t">>

FileNames ==
    { Stem \o PNG, Stem \o JPG, Stem \o JPEG, Stem \o PNG \o JPG,
      Stem \o OBJ \o JPG, Stem \o TXT, Stem \o OBJ }

\* str.endswith
EndsWith(s, suffix) ==
    /\ Len(s) >= Len(suffix)
    /\ SubSeq(s, Len(s) - Len(suffix) + 1, Len(s)) = suffix

\* str.replace: every non-overlapping occurrence of old, left to right
RECURSIVE Replace(_, _, _)
Replace(s, old, new) ==
    IF Len(s) < Len(old) THEN s
    ELSE IF SubSeq(s, 1, Len(old)) = old
         THEN new \o Replace(SubSeq(s, Len(old) + 1, Len(s)), old, new)
         ELSE <<s[1]>> \o Replace(Tail(s), old, new)

\* line 101: f.endswith(('.png', '.jpg', '.jpeg'))
IsImageName(f) == EndsWith(f, PNG) \/ EndsWith(f, JPG) \/ EndsWith(f, JPEG)

\* line 127: image.replace('.png', '.obj')
ObjFilename(image) == Replace(image, PNG, OBJ)

\* line 128: image.replace('.png', '.txt')
TxtFilename(image) == Replace(image, PNG, TXT)

\* what a file holds; h and w are the pixel rows and columns of an image
Content(kind, h, w) == [kind |-> kind, h |-> h, w |-> w]
ImageContents == {Content("image", 2, 2), Content("image", 1, 2)}

\* os.listdir(): the names of the directory, in any order
Listings ==
    {l \in UNION {[1..n -> FileNames] : n \in 0..MaxFiles} :
        \A a \in 1..Len(l) : \A b \in 1..Len(l) : a # b => l[a] # l[b]}

Range(l) == {l[k] : k \in 1..Len(l)}

\* open(filename, 'w') and the writes that follow
WriteFile(files, name, content) ==
    [n \in (DOMAIN files) \cup {name} |-> IF n = name THEN content ELSE files[n]]

\* images[k] for a Python index k, negative indices counting from the end
IndexOk(l, k) == -Len(l) <= k /\ k < Len(l)
Index(l, k) == IF k >= 0 THEN l[k + 1] ELSE l[Len(l) + k + 1]

\* the answers int(input(...)) is given
Choices == (-1)..(MaxFiles + 1)

InitImages ==
    /\ pc = "images_list"
    /\ err = "none"
    /\ height = 0
    /\ width = 0
    /\ heightmap = <<>>
    /\ radius = Zero
    /\ max_depth = Zero
    /\ y = 0
    /\ x = 0
    /\ vertices = <<>>
    /\ uvs = <<>>
    /\ normals = <<>>
    /\ faces = <<>>
    /\ out = <<>>
    /\ pos = 0
    /\ listing \in Listings
    /\ fs \in [Range(listing) -> ImageContents \cup {Content("other", 0, 0)}]
    /\ \A n \in Range(listing) : IsImageName(n) <=> fs[n].kind = "image"
    /\ images = <<>>
    /\ selected_images = <<>>
    /\ batch_process = FALSE
    /\ cur = 1
    /\ obj_filename = <<>>
    /\ txt_filename = <<>>

\* lines 101-103: the image files of the directory; a single one is selected
ListImages ==
    /\ pc = "images_list"
    /\ images' = SelectSeq(listing, IsImageName)
    /\ IF Len(images') = 1
       THEN selected_images' = images' /\ pc' = "images_loop"
       ELSE selected_images' = selected_images /\ pc' = "images_menu"
    /\ UNCHANGED <<err, listing, fs, batch_process, cur, obj_filename,
                   txt_filename>>
    /\ UNCHANGED meshVars

\* lines 109-114: choice 0, process all
ChooseAll ==
    /\ pc = "images_menu"
    /\ \E answer \in {"y", "n"} :
           /\ selected_images' = images
           /\ batch_process' = (answer = "y")
    /\ pc' = "images_loop"
    /\ UNCHANGED <<err, listing, fs, images, cur, obj_filename, txt_filename>>
    /\ UNCHANGED meshVars

\* lines 109-116: a choice other than 0, images[choice - 1]
ChooseOne ==
    /\ pc = "images_menu"
    /\ \E choice \in Choices \ {0} :
           IF IndexOk(images, choice - 1)
           THEN /\ selected_images' = <<Index(images, choice - 1)>>
                /\ pc' = "images_loop"
                /\ err' = err
           ELSE /\ selected_images' = selected_images
                /\ pc' = "images_raised"
                /\ err' = "IndexError"
    /\ batch_process' = FALSE
    /\ UNCHANGED <<listing, fs, images, cur, obj_filename, txt_filename>>
    /\ UNCHANGED meshVars

\* lines 118-120: the next image is loaded
LoadHeightmap ==
    /\ pc = "images_loop"
    /\ cur <= Len(selected_images)
    /\ LET image == selected_images[cur]
       IN  IF fs[image].kind = "image"
           THEN /\ height' = fs[image].h
                /\ width' = fs[image].w
                /\ pc' = "images_convert"
                /\ err' = err
           ELSE /\ height' = height
                /\ width' = width
                /\ pc' = "images_raised"
                /\ err' = "UnidentifiedImageError"
    /\ UNCHANGED <<heightmap, radius, max_depth, y, x, vertices, uvs, normals,
                   faces, out, pos>>
    /\ UNCHANGED fileVars

\* lines 121-125: process_vertices and process_faces return, or raise
Convert ==
    /\ pc = "images_convert"
    /\ IF ThetaRaises(width) \/ WorldZRaises(height)
       THEN pc' = "images_raised" /\ err' = "ZeroDivisionError"
       ELSE pc' = "images_save_obj" /\ err' = err
    /\ UNCHANGED meshVars
    /\ UNCHANGED fileVars

\* lines 127-129: the two output names, and save_obj
SaveObj ==
    /\ pc = "images_save_obj"
    /\ obj_filename' = ObjFilename(selected_images[cur])
    /\ txt_filename' = TxtFilename(selected_images[cur])
    /\ fs' = WriteFile(fs, obj_filename', Content("mesh", height, width))
    /\ pc' = "images_save_metadata"
    /\ UNCHANGED <<err, listing, images, selected_images, batch_process, cur>>
    /\ UNCHANGED meshVars

\* lines 130-132: save_metadata, then on to the next image or to the prompt
SaveMetadata ==
    /\ pc = "images_save_metadata"
    /\ fs' = WriteFile(fs, txt_filename, Content("metrics", height, width))
    /\ IF Len(selected_images) > 1 /\ ~batch_process
       THEN pc' = "images_prompt" /\ cur' = cur
       ELSE pc' = "images_loop" /\ cur' = cur + 1
    /\ UNCHANGED <<err, listing, images, selected_images, batch_process,
                   obj_filename, txt_filename>>
    /\ UNCHANGED meshVars

\* line 133: input("Press Enter to continue to the next image...")
Prompt ==
    /\ pc = "images_prompt"
    /\ pc' = "images_loop"
    /\ cur' = cur + 1
    /\ UNCHANGED <<err, listing, fs, images, selected_images, batch_process,
                   obj_filename, txt_filename>>
    /\ UNCHANGED meshVars

\* line 118: every selected image has been processed
ImagesDone ==
    /\ pc = "images_loop"
    /\ cur > Len(selected_images)
    /\ pc' = "images_done"
    /\ UNCHANGED err
    /\ UNCHANGED meshVars
    /\ UNCHANGED fileVars

NextImages ==
    \/ ListImages
    \/ ChooseAll
    \/ ChooseOne
    \/ LoadHeightmap
    \/ Convert
    \/ SaveObj
    \/ SaveMetadata
    \/ Prompt
    \/ ImagesDone

SpecImages == InitImages /\ [][NextImages]_vars

----------------------------------------------------------------------------
(* Properties of process_images, checked under SpecImages.                 *)

\* C10 as stated: for every selected image the mesh path, the metrics path
\* and the image path are pairwise distinct, and no file that held an image
\* when the run started is overwritten.
C10_DistinctPaths ==
    /\ pc = "images_save_metadata" =>
           /\ obj_filename # txt_filename
           /\ obj_filename # selected_images[cur]
           /\ txt_filename # selected_images[cur]
    /\ \A n \in Range(images) : fs[n].kind = "image"

====
